---- MODULE Spec2Model ----
(***************************************************************************)
(* The consolidation engine of hhc-repo: the configuration-driven merge    *)
(* of data_transform.py and the specialty rollup of                        *)
(* specialty_roll_up_transformation.py, cloud_function_rollup.py and       *)
(* app.py, over a small model of the pandas operations they call.          *)
(***************************************************************************)
EXTENDS Integers, Sequences, FiniteSets, TLC

VARIABLES
    loaded,        \* the relation map as load_dataframes / the caller supplied it
    dfs,           \* the relation map process_and_merge_data works on (it pops Physician)
    physician_df,  \* the subject table, rebound by every applied directive
    idx,           \* position of the for loop over get_merge_config()
    pc,            \* control point of the run
    warnings,      \* names of the directives a warning was logged for
    err,           \* the exception that ended the run, "" when none
    records,       \* the output: documents of save_and_finalize, all_records of the rollup
    df_final,      \* the table the rollup builds: df_rolled_up, then df_final
    variant,       \* which copy of the rollup code runs: "script", "cloud" or "app"
    cow,           \* the pandas build runs with copy-on-write (chained inplace calls are lost)
    output_file,   \* the lines of the local output file, NoFile before it is opened
    uploaded,      \* the lines of the blob the run uploaded, NoFile when none
    outcome,       \* how the entry point ended: "" while it runs, "returned" or "raised"
    log,           \* the error diagnostics the entry point logged or printed
    first_run,     \* the blob an earlier run on the same sources uploaded, NoFile when none
    files,         \* the source files of load_dataframes, in the order glob lists them
    event,         \* the storage event that triggered the cloud function, <<>> when none
    calls          \* the requests the /ingest endpoint sent to external services, in order

\* what the entry point leaves outside the process, and how it ends
io == <<output_file, uploaded, outcome, log>>

vars == <<loaded, dfs, physician_df, idx, pc, warnings, err, records, df_final, variant,
          cow, io, first_run, files, event, calls>>

\* a file or blob that does not exist, and one that holds the given lines
NoFile == [missing |-> TRUE]
File(lines) == [lines |-> lines]

(***************************************************************************)
(* Cell values.  Every cell is a tagged tuple, so that a missing value, a  *)
(* scalar, a list and a list of dicts are all comparable.                  *)
(***************************************************************************)
NaN == <<"NaN">>
Num(n) == <<"int", n>>
Str(s) == <<"str", s>>
\* the text of column col in source row i: a distinct value per column and row
Txt(col, i) == <<"str", col, i>>
List(s) == <<"list", s>>
Dict(r) == <<"dict", r>>
IsList(v) == v[1] = "list"

(***************************************************************************)
(* DataFrames: a set of column names and a sequence of rows, each row a    *)
(* function from the column names to cell values.                          *)
(***************************************************************************)
DataFrame(cols, rows) == [cols |-> cols, rows |-> rows]
\* pd.read_json of "[]", pd.DataFrame([]): no rows and no columns
EmptyFrame == DataFrame({}, <<>>)
\* a pandas call that raised
Raised(kind) == [error |-> kind]
IsError(r) == "error" \in DOMAIN r

Range(s) == {s[i] : i \in DOMAIN s}

RECURSIVE Flatten(_)
Flatten(ss) == IF ss = <<>> THEN <<>> ELSE Head(ss) \o Flatten(Tail(ss))

MapSeq(s, F(_)) == [i \in DOMAIN s |-> F(s[i])]

\* DataFrame.rename(columns={from: to}); a name that is no column is ignored
Rename(df, from, to) ==
    IF from \notin df.cols THEN df
    ELSE LET cols == (df.cols \ {from}) \cup {to}
         IN DataFrame(cols,
                MapSeq(df.rows, LAMBDA r : [c \in cols |-> IF c = to THEN r[from] ELSE r[c]]))

\* df[cols]: KeyError when a name is no column
Project(df, cols) ==
    IF ~(cols \subseteq df.cols) THEN Raised("KeyError")
    ELSE DataFrame(cols, MapSeq(df.rows, LAMBDA r : [c \in cols |-> r[c]]))

\* a drop that removes nothing
KeepColumn(df, col) == df

\* DataFrame.drop(columns=[col])
DropColumn(df, col) ==
    LET cols == df.cols \ {col}
    IN DataFrame(cols, MapSeq(df.rows, LAMBDA r : [c \in cols |-> r[c]]))

\* the group keys of groupby(by): the distinct non-null keys, sorted
RECURSIVE SortKeys(_)
SortKeys(S) ==
    IF S = {} THEN <<>>
    ELSE LET m == CHOOSE k \in S : \A j \in S : k[2] <= j[2]
         IN <<m>> \o SortKeys(S \ {m})

GroupKeys(df, by) == SortKeys({r[by] : r \in Range(df.rows)} \ {NaN})

\* a grouping that hands the rows of a group over last row first
GroupRowsReversed(df, by, k) ==
    LET g == SelectSeq(df.rows, LAMBDA r : r[by] = k)
    IN [i \in DOMAIN g |-> g[Len(g) + 1 - i]]

\* the rows of the group of key k, in the frame's row order
GroupRows(df, by, k) == SelectSeq(df.rows, LAMBDA r : r[by] = k)

\* df.groupby(by)[col].apply(list).reset_index()
GroupApplyList(df, by, col) ==
    IF ~({by, col} \subseteq df.cols) THEN Raised("KeyError")
    ELSE DataFrame({by, col},
            MapSeq(GroupKeys(df, by), LAMBDA k :
                [c \in {by, col} |->
                    IF c = by THEN k
                    ELSE List(MapSeq(GroupRows(df, by, k), LAMBDA r : r[col]))]))

\* df.groupby(by).apply(lambda x: x[dict_cols].to_dict('records')).reset_index(name=name)
GroupApplyDict(df, by, dict_cols, name) ==
    IF ~(({by} \cup dict_cols) \subseteq df.cols) THEN Raised("KeyError")
    ELSE DataFrame({by, name},
            MapSeq(GroupKeys(df, by), LAMBDA k :
                [c \in {by, name} |->
                    IF c = by THEN k
                    ELSE List(MapSeq(GroupRows(df, by, k),
                                LAMBDA r : Dict([d \in dict_cols |-> r[d]])))]))

\* a join that keeps only the left rows with a match (how="inner")
MergeInner(left, right, on) ==
    IF on \notin left.cols \/ on \notin right.cols THEN Raised("KeyError")
    ELSE LET cols == left.cols \cup right.cols
             joined(l, r) == [n \in cols |-> IF n \in left.cols THEN l[n] ELSE r[n]]
             matches(l) == SelectSeq(right.rows, LAMBDA r : r[on] = l[on])
             expand(l) == MapSeq(matches(l), LAMBDA r : joined(l, r))
         IN DataFrame(cols, Flatten(MapSeq(left.rows, expand)))

\* pd.merge(left, right, on=on, how="left"): every left row in order, once per
\* matching right row (in right order), or once with NaN when none matches;
\* columns the two sides share besides the key get the suffixes _x and _y
MergeLeft(left, right, on) ==
    IF on \notin left.cols \/ on \notin right.cols THEN Raised("KeyError")
    ELSE LET both == (left.cols \cap right.cols) \ {on}
             lname(c) == IF c \in both THEN c \o "_x" ELSE c
             rname(c) == IF c \in both THEN c \o "_y" ELSE c
             lcols == {lname(c) : c \in left.cols}
             rcols == {rname(c) : c \in right.cols \ {on}}
             lsrc(n) == CHOOSE c \in left.cols : lname(c) = n
             rsrc(n) == CHOOSE c \in right.cols \ {on} : rname(c) = n
             joined(l, r) == [n \in lcols \cup rcols |->
                                IF n \in lcols THEN l[lsrc(n)] ELSE r[rsrc(n)]]
             padded(l) == [n \in lcols \cup rcols |->
                                IF n \in lcols THEN l[lsrc(n)] ELSE NaN]
             matches(l) == SelectSeq(right.rows, LAMBDA r : r[on] = l[on])
             expand(l) == IF matches(l) = <<>> THEN <<padded(l)>>
                          ELSE MapSeq(matches(l), LAMBDA r : joined(l, r))
         IN DataFrame(lcols \cup rcols, Flatten(MapSeq(left.rows, expand)))

\* run the next pandas call on r unless an earlier one raised
Then(r, F(_)) == IF IsError(r) THEN r ELSE F(r)

(***************************************************************************)
(* data_transform.py: the merge directive table and its three strategies.  *)
(***************************************************************************)
get_merge_config == <<
    [name |-> "Languages", primary_df_key |-> "PhysicianLanguage",
     type |-> "group_and_list", group_by |-> "PhysicianId",
     agg_col |-> "Language", rename_to |-> "languages"],
    [name |-> "Practices", primary_df_key |-> "PhysicianPractice",
     type |-> "group_and_list", group_by |-> "PhysicianId",
     agg_col |-> "PracticeId"],
    [name |-> "Team Keywords", primary_df_key |-> "PhysicianTeamKeyword",
     type |-> "group_and_list", group_by |-> "PhysicianId",
     agg_col |-> "TeamKeyword"],
    [name |-> "Faculty Appointments", primary_df_key |-> "PhysicianFacultyAppointment",
     type |-> "group_and_list", group_by |-> "PhysicianId",
     agg_col |-> "Position", rename_to |-> "Position_faculty_appointments"],
    [name |-> "Insurance", primary_df_key |-> "PhysicianInsurance",
     secondary_df_key |-> "Insurance", type |-> "group_and_dict",
     left_on |-> "InsuranceId", right_on |-> "Id", group_by |-> "PhysicianId",
     dict_cols |-> {"InsuranceId", "Name"}, rename_to |-> "insurance"],
    [name |-> "Locations", primary_df_key |-> "PhysicianLocation",
     secondary_df_key |-> "Location", type |-> "group_and_dict",
     left_on |-> "LocationId", right_on |-> "Id", group_by |-> "PhysicianId",
     rename_to |-> "location"],
    [name |-> "Area of Expertise", primary_df_key |-> "PhysicianAreaOfExpertise",
     secondary_df_key |-> "AreaOfExpertise", type |-> "group_and_dict",
     left_on |-> "AreaOfExpertiseId", right_on |-> "Id", group_by |-> "PhysicianId",
     rename_to |-> "area_of_expertise"],
    [name |-> "Education", primary_df_key |-> "PhysicianEducation",
     type |-> "group_and_dict", group_by |-> "PhysicianId",
     dict_cols |-> {"School", "SchoolType", "Degree", "AreaOfStudy"},
     rename_to |-> "education"],
    [name |-> "Credentials", primary_df_key |-> "PhysicianCredential",
     type |-> "group_and_dict", group_by |-> "PhysicianId",
     dict_cols |-> {"Facility", "ShowOnWeb"}, rename_to |-> "facility"],
    [name |-> "Specialties", primary_df_key |-> "PhysicianSpecialty",
     type |-> "special_specialty_merge"] >>

Has(config, key) == key \in DOMAIN config

_merge_group_and_list(pdf, df_to_merge, config) ==
    LET grouped == GroupApplyList(df_to_merge, config.group_by, config.agg_col)
        renamed(g) == IF Has(config, "rename_to")
                      THEN Rename(g, config.agg_col, config.rename_to) ELSE g
    IN Then(grouped, LAMBDA g : MergeLeft(pdf, renamed(g), config.group_by))

_merge_group_and_dict(pdf, df_to_merge, d, config) ==
    LET with_secondary == Has(config, "secondary_df_key")
                            /\ config.secondary_df_key \in DOMAIN d
        secondary_df == Rename(d[config.secondary_df_key], config.right_on, config.left_on)
        to_group == IF with_secondary
                    THEN MergeLeft(df_to_merge, secondary_df, config.left_on)
                    ELSE df_to_merge
        grouped(m) == IF with_secondary
                      THEN GroupApplyDict(m, config.group_by, secondary_df.cols,
                                          config.rename_to)
                      ELSE IF ~Has(config, "dict_cols") THEN Raised("KeyError")
                      ELSE GroupApplyDict(m, config.group_by, config.dict_cols,
                                          config.rename_to)
    IN Then(Then(to_group, grouped), LAMBDA g : MergeLeft(pdf, g, config.group_by))

cols_to_group == {"SpecialtyId", "BoardCertification", "AcceptingNewPatients",
                  "Primary", "Name", "SynonymTexts", "SymptomTexts"}

\* one of the two optional joins of the details table: the texts of relation
\* rel, listed per SpecialtyId under the column name
WithTexts(details, d, rel, col, name) ==
    IF rel \notin DOMAIN d THEN details
    ELSE Then(details, LAMBDA dt :
            Then(GroupApplyList(d[rel], "SpecialtyId", col), LAMBDA g :
                MergeLeft(dt, Rename(g, col, name), "SpecialtyId")))

_merge_specialties(pdf, d) ==
    IF "Specialty" \notin DOMAIN d THEN pdf
    ELSE LET renamed == Rename(d["Specialty"], "Id", "SpecialtyId")
             with_syn == WithTexts(renamed, d, "Synonym", "SynonymText", "SynonymTexts")
             details_df == WithTexts(with_syn, d, "Symptom", "SymptomText", "SymptomTexts")
             merged_specialties == Then(details_df, LAMBDA dt :
                                     MergeLeft(d["PhysicianSpecialty"], dt, "SpecialtyId"))
             spec_grouped == Then(merged_specialties, LAMBDA m :
                                GroupApplyDict(m, "PhysicianId", cols_to_group \cap m.cols,
                                               "specialties"))
         IN Then(spec_grouped, LAMBDA g : MergeLeft(pdf, g, "PhysicianId"))

\* DataFrame.empty: an axis of length 0
IsEmpty(df) == df.rows = <<>> \/ df.cols = {}

\* a guard that forgets the test of .empty
SkipsOnlyAbsent(config, d) ==
    \/ "primary_df_key" \notin DOMAIN config
    \/ config.primary_df_key \notin DOMAIN d

\* the guard of the loop body: the directive is skipped with a warning
SkipsDirective(config, d) ==
    \/ "primary_df_key" \notin DOMAIN config
    \/ config.primary_df_key \notin DOMAIN d
    \/ IsEmpty(d[config.primary_df_key])

\* the dispatch on config["type"]
ApplyDirective(pdf, d, config) ==
    CASE config.type = "group_and_list" ->
            _merge_group_and_list(pdf, d[config.primary_df_key], config)
      [] config.type = "group_and_dict" ->
            _merge_group_and_dict(pdf, d[config.primary_df_key], d, config)
      [] config.type = "special_specialty_merge" -> _merge_specialties(pdf, d)
      [] OTHER -> pdf

(***************************************************************************)
(* The relation sources of a run.  MaxPhys bounds the rows of Physician    *)
(* and MaxRows the rows of every child relation.                           *)
(***************************************************************************)
MaxPhys == 2
MaxRows == 2

\* a PhysicianId no Physician row carries
UnknownId == MaxPhys + 1

ListRelations == {"PhysicianLanguage", "PhysicianPractice", "PhysicianTeamKeyword",
                  "PhysicianFacultyAppointment"}
LinkRelations == {"PhysicianInsurance", "PhysicianLocation", "PhysicianAreaOfExpertise",
                  "PhysicianSpecialty"}
ChildRelations == ListRelations \cup LinkRelations
                    \cup {"PhysicianEducation", "PhysicianCredential"}
DimensionRelations == {"Insurance", "Location", "AreaOfExpertise", "Specialty"}
TextRelations == {"Synonym", "Symptom"}
Relations == {"Physician"} \cup ChildRelations \cup DimensionRelations \cup TextRelations

\* the columns of a child relation besides PhysicianId; the first set holds
\* the foreign keys and identifiers, the second the descriptive columns
KeyColumns(rel) ==
    CASE rel = "PhysicianPractice" -> {"PracticeId"}
      [] rel = "PhysicianInsurance" -> {"InsuranceId"}
      [] rel = "PhysicianLocation" -> {"LocationId"}
      [] rel = "PhysicianAreaOfExpertise" -> {"AreaOfExpertiseId"}
      [] rel = "PhysicianSpecialty" -> {"SpecialtyId"}
      [] OTHER -> {}

TextColumns(rel) ==
    CASE rel = "PhysicianLanguage" -> {"Language"}
      [] rel = "PhysicianTeamKeyword" -> {"TeamKeyword"}
      [] rel = "PhysicianFacultyAppointment" -> {"Position"}
      [] rel = "PhysicianEducation" -> {"School", "SchoolType", "Degree", "AreaOfStudy"}
      [] rel = "PhysicianCredential" -> {"Facility", "ShowOnWeb"}
      [] rel = "PhysicianSpecialty" -> {"BoardCertification", "AcceptingNewPatients", "Primary"}
      [] OTHER -> {}

\* a child relation whose i-th row references subject links[i]; its i-th row
\* carries the key i and texts of its own
ChildFrame(rel, links) ==
    LET cols == {"PhysicianId"} \cup KeyColumns(rel) \cup TextColumns(rel)
    IN DataFrame(cols,
        [i \in DOMAIN links |->
            [c \in cols |-> IF c = "PhysicianId" THEN Num(links[i])
                            ELSE IF c \in KeyColumns(rel) THEN Num(i)
                            ELSE Txt(c, i)]])

\* a dimension relation with the one row Id = 1: the first row of a child
\* relation finds its dimension row, the second does not
DimensionFrame(rel) ==
    DataFrame({"Id", "Name"}, << [Id |-> Num(1), Name |-> Txt(rel, 1)] >>)

\* the Synonym and Symptom texts: two for specialty 1
TextFrame(rel) ==
    LET col == rel \o "Text"
    IN DataFrame({"SpecialtyId", col},
        [i \in 1..2 |-> [c \in {"SpecialtyId", col} |->
                            IF c = "SpecialtyId" THEN Num(1) ELSE Txt(col, i)]])

\* the Physician relation with the given identifiers, in the given order;
\* without identifiers it is a source that names its columns and has no row
PhysicianFrame(ids) ==
    DataFrame({"PhysicianId", "Name", "AcceptingNewPatients"},
        [i \in DOMAIN ids |->
            [PhysicianId |-> Num(ids[i]), Name |-> Txt("Name", ids[i]),
             AcceptingNewPatients |-> Txt("AcceptingNewPatients", ids[i])]])

SeqsUpTo(S, n) == UNION {[1..k -> S] : k \in 0..n}

\* the subject identifier is unique within the subject relation: up to MaxPhys
\* subjects, in ascending or in descending order of their identifiers
PhysicianIdLists ==
    UNION {{[i \in 1..n |-> i], [i \in 1..n |-> n + 1 - i]} : n \in 0..MaxPhys}

\* a child row references the first subject, the last one, or no subject
LinkIds == {1, MaxPhys, UnknownId}
LinkLists == SeqsUpTo(LinkIds, MaxRows) \ {<<>>}

\* what may be wrong with the sources of a run: nothing, one source that is
\* absent or unparsable (no entry in the map), one source that holds "[]", or
\* no source at all
Scenarios ==
    {[absent |-> {}, empty |-> {}], [absent |-> Relations, empty |-> {}]}
        \cup {[absent |-> {r}, empty |-> {}] : r \in Relations}
        \cup {[absent |-> {}, empty |-> {r}] : r \in Relations}

SourceFrame(rel, ids, links) ==
    CASE rel = "Physician" -> PhysicianFrame(ids)
      [] rel \in ChildRelations -> ChildFrame(rel, links)
      [] rel \in DimensionRelations -> DimensionFrame(rel)
      [] OTHER -> TextFrame(rel)

RelationMap(sc, ids, links) ==
    [rel \in Relations \ sc.absent |->
        IF rel \in sc.empty THEN EmptyFrame ELSE SourceFrame(rel, ids, links)]

(***************************************************************************)
(* main of data_transform.py: load_dataframes has filled the relation map, *)
(* then process_and_merge_data, save_and_finalize and upload_to_gcs run.   *)
(***************************************************************************)
Init ==
    /\ \E sc \in Scenarios, ids \in PhysicianIdLists, links \in LinkLists :
            loaded = RelationMap(sc, ids, links)
    /\ dfs = loaded
    /\ physician_df = EmptyFrame
    /\ idx = 1
    /\ pc = "start"
    /\ warnings = <<>>
    /\ err = ""
    /\ records = <<>>
    /\ df_final = EmptyFrame
    /\ variant = "merge"
    /\ cow = FALSE
    /\ output_file = NoFile
    /\ uploaded = NoFile
    /\ outcome = ""
    /\ log = <<>>
    /\ first_run = NoFile
    /\ files = <<>>
    /\ event = <<>>
    /\ calls = <<>>

\* a read of the entry that leaves it in the map
Peek(d, key) == d

\* dfs.pop("Physician")
Pop(d, key) == [k \in DOMAIN d \ {key} |-> d[k]]

\* main lines 388-390: nothing was loaded, main says so and returns
NoDataframes ==
    /\ pc = "start"
    /\ DOMAIN loaded = {}
    /\ pc' = "exited"
    /\ outcome' = "returned"
    /\ log' = Append(log, "No dataframes were loaded")
    /\ UNCHANGED <<event, calls, files, first_run, loaded, dfs, physician_df, idx, warnings, err, records, df_final,
                   variant, cow, output_file, uploaded>>

\* a start that takes an absent subject relation for one without rows
StartWithoutSubjectCheck ==
    /\ pc = "start"
    /\ DOMAIN loaded # {}
    /\ physician_df' = IF "Physician" \in DOMAIN dfs THEN dfs["Physician"] ELSE EmptyFrame
    /\ dfs' = Pop(dfs, "Physician")
    /\ pc' = "merging"
    /\ UNCHANGED <<event, calls, files, first_run, loaded, idx, warnings, err, records, df_final, variant, cow, io>>

\* lines 300-305: the subject relation is taken out of the map, or the run ends
Start ==
    /\ pc = "start"
    /\ DOMAIN loaded # {}
    /\ IF "Physician" \notin DOMAIN dfs
       THEN /\ pc' = "raised"
            /\ err' = "ValueError"
            /\ UNCHANGED <<dfs, physician_df>>
       ELSE /\ physician_df' = dfs["Physician"]
            /\ dfs' = Pop(dfs, "Physician")
            /\ pc' = "merging"
            /\ err' = err
    /\ UNCHANGED <<event, calls, files, first_run, loaded, idx, warnings, records, df_final, variant, cow, io>>

\* lines 307-323: one pass of the loop over the directives
MergeStep ==
    /\ pc = "merging"
    /\ idx <= Len(get_merge_config)
    /\ LET config == get_merge_config[idx]
           merged == ApplyDirective(physician_df, dfs, config)
       IN IF SkipsDirective(config, dfs)
          THEN /\ warnings' = Append(warnings, config.name)
               /\ idx' = idx + 1
               /\ UNCHANGED <<physician_df, pc, err>>
          ELSE IF IsError(merged)
          THEN /\ pc' = "raised"
               /\ err' = merged.error
               /\ UNCHANGED <<physician_df, idx, warnings>>
          ELSE /\ physician_df' = merged
               /\ idx' = idx + 1
               /\ UNCHANGED <<pc, err, warnings>>
    /\ UNCHANGED <<event, calls, files, first_run, loaded, dfs, records, df_final, variant, cow, io>>

\* lines 325-326
Return ==
    /\ pc = "merging"
    /\ idx > Len(get_merge_config)
    /\ pc' = "returned"
    /\ UNCHANGED <<event, calls, files, first_run, loaded, dfs, physician_df, idx, warnings, err, records, df_final, variant,
                   cow, io>>

\* DataFrame.to_json / json.dumps of one cell: a missing value is written null
Null == <<"null">>
RECURSIVE to_json(_)
to_json(v) ==
    CASE v = NaN -> Null
      [] v[1] = "list" -> List(MapSeq(v[2], to_json))
      [] v[1] = "dict" -> Dict([k \in DOMAIN v[2] |-> to_json(v[2][k])])
      [] OTHER -> v

\* df.to_json(orient='records', lines=True): one document per row, in row order
ToJsonLines(df) == MapSeq(df.rows, LAMBDA r : [c \in df.cols |-> to_json(r[c])])

\* lines 338-350
save_and_finalize(df) ==
    ToJsonLines(IF "AcceptingNewPatients" \in df.cols
                THEN DropColumn(df, "AcceptingNewPatients") ELSE df)

SaveAndFinalize ==
    /\ pc = "returned"
    /\ records' = save_and_finalize(physician_df)
    /\ output_file' = File(records')
    /\ pc' = "saved"
    /\ UNCHANGED <<event, calls, files, first_run, loaded, dfs, physician_df, idx, warnings, err, df_final, variant, cow,
                   uploaded, outcome, log>>

\* main lines 401-405 and upload_to_gcs lines 81-90: the blob takes the lines
\* of the file and main returns, or the storage service fails, upload_to_gcs
\* logs the failure and raises it again
Upload ==
    /\ pc = "saved"
    /\ \E ok \in BOOLEAN :
        IF ok
        THEN /\ uploaded' = output_file
             /\ pc' = "uploaded"
             /\ outcome' = "returned"
             /\ UNCHANGED <<err, log>>
        ELSE /\ pc' = "raised"
             /\ err' = "Exception"
             /\ log' = Append(log, "An error occurred during upload")
             /\ UNCHANGED <<uploaded, outcome>>
    /\ UNCHANGED <<event, calls, files, first_run, loaded, dfs, physician_df, idx, warnings, records, df_final, variant,
                   cow, output_file>>

\* main lines 407-408: except (ValueError, KeyError) logs the exception and
\* main returns; any other exception leaves main
Except ==
    /\ pc = "raised"
    /\ outcome = ""
    /\ IF err \in {"ValueError", "KeyError"}
       THEN outcome' = "returned" /\ log' = Append(log, "Failed during data processing")
       ELSE outcome' = "raised" /\ log' = log
    /\ UNCHANGED <<event, calls, files, first_run, loaded, dfs, physician_df, idx, pc, warnings, err, records, df_final,
                   variant, cow, output_file, uploaded>>

\* a second trigger that keeps the relation map the first run worked on
RerunOnSameMap ==
    /\ pc = "uploaded"
    /\ first_run = NoFile
    /\ first_run' = uploaded
    /\ physician_df' = EmptyFrame
    /\ idx' = 1
    /\ pc' = "start"
    /\ warnings' = <<>>
    /\ records' = <<>>
    /\ outcome' = ""
    /\ log' = <<>>
    /\ UNCHANGED <<event, calls, files, loaded, dfs, err, df_final, variant, cow, output_file, uploaded>>

\* main lines 359-386, triggered a second time after a run that ended with an
\* upload: load_dataframes reads the same sources into a new relation map; the
\* local file and the blob of the first run are still there
Rerun ==
    /\ pc = "uploaded"
    /\ first_run = NoFile
    /\ first_run' = uploaded
    /\ dfs' = loaded
    /\ physician_df' = EmptyFrame
    /\ idx' = 1
    /\ pc' = "start"
    /\ warnings' = <<>>
    /\ records' = <<>>
    /\ outcome' = ""
    /\ log' = <<>>
    /\ UNCHANGED <<event, calls, files, loaded, err, df_final, variant, cow, output_file, uploaded>>

Next ==
    \/ NoDataframes \/ Start \/ MergeStep \/ Return \/ SaveAndFinalize \/ Upload \/ Except
    \/ Rerun

Spec == Init /\ [][Next]_vars

(***************************************************************************)
(* Properties of the merge (specification Spec).                           *)
(***************************************************************************)
Directives == DOMAIN get_merge_config

\* the column a directive adds to the subject table
OutputField(config) ==
    IF config.type = "special_specialty_merge" THEN "specialties"
    ELSE IF Has(config, "rename_to") THEN config.rename_to
    ELSE config.agg_col

\* the primary relation of directive i is in the map and has rows
PrimaryHasRows(i) ==
    /\ get_merge_config[i].primary_df_key \in DOMAIN dfs
    /\ Len(dfs[get_merge_config[i].primary_df_key].rows) > 0

\* the loop has passed directive i and did not skip it
Applied(i) == pc \in {"merging", "returned"} /\ i < idx /\ PrimaryHasRows(i)

\* the child rows of directive i that reference the subject of row
ChildRowsOf(i, row) ==
    SelectSeq(dfs[get_merge_config[i].primary_df_key].rows,
              LAMBDA c : c[get_merge_config[i].group_by] = row[get_merge_config[i].group_by])

OfType(i, type) == get_merge_config[i].type = type

FieldIs(row, field, value) == field \in DOMAIN row /\ row[field] = value

SubjectIds(df) == MapSeq(df.rows, LAMBDA r : r["PhysicianId"])

\* C1: after a group_and_list directive is applied, every subject row without
\* a matching child row has the directive's output field equal to the empty
\* list, never null and never absent.
C1_ListFieldEmptyWithoutChild ==
    \A i \in Directives :
        Applied(i) /\ OfType(i, "group_and_list") =>
            \A r \in DOMAIN physician_df.rows :
                ChildRowsOf(i, physician_df.rows[r]) = <<>> =>
                    FieldIs(physician_df.rows[r], OutputField(get_merge_config[i]),
                            List(<<>>))

\* C2: after a group_and_dict directive is applied, every subject row without
\* a matching row in the primary child relation has the directive's output
\* field equal to the empty list.
C2_DictFieldEmptyWithoutChild ==
    \A i \in Directives :
        Applied(i) /\ OfType(i, "group_and_dict") =>
            \A r \in DOMAIN physician_df.rows :
                ChildRowsOf(i, physician_df.rows[r]) = <<>> =>
                    FieldIs(physician_df.rows[r], OutputField(get_merge_config[i]),
                            List(<<>>))

\* C3: after a group_and_list directive is applied, the output field of every
\* subject row with a matching child row is the list of the agg_col values of
\* exactly the child rows of that subject, in the child relation's row order.
C3_ListFieldIsChildValuesInOrder ==
    \A i \in Directives :
        Applied(i) /\ OfType(i, "group_and_list") =>
            \A r \in DOMAIN physician_df.rows :
                LET row == physician_df.rows[r]
                    children == ChildRowsOf(i, row)
                IN children # <<>> =>
                    FieldIs(row, OutputField(get_merge_config[i]),
                            List([k \in DOMAIN children |->
                                    children[k][get_merge_config[i].agg_col]]))

\* a run that applied the list directives to subjects in non-sorted order, one
\* of them with two child rows and the other with none
C3_Witness ==
    /\ pc = "returned"
    /\ SubjectIds(physician_df) = <<Num(2), Num(1)>>
    /\ "languages" \in physician_df.cols
    /\ physician_df.rows[1]["languages"] =
            List(<<Txt("Language", 1), Txt("Language", 2)>>)
    /\ physician_df.rows[2]["TeamKeyword"] = NaN

\* C4: while the directives are applied or skipped and when the table is
\* returned, the subject identifiers of the subject table are those of the
\* input Physician relation, row for row: one row per subject row, in the
\* original order, and none for a child row of an unknown subject.
C4_OneRowPerSubjectInOrder ==
    pc \in {"merging", "returned"} =>
        SubjectIds(physician_df) = SubjectIds(loaded["Physician"])

\* a returned table of two subjects in non-sorted order, built with applied and
\* skipped directives from child rows that reference an unknown subject too
C4_Witness ==
    /\ pc = "returned"
    /\ SubjectIds(physician_df) = <<Num(2), Num(1)>>
    /\ warnings # <<>>
    /\ "facility" \in physician_df.cols
    /\ \E c \in Range(dfs["PhysicianCredential"].rows) : c["PhysicianId"] = Num(UnknownId)
    /\ \E c \in Range(dfs["PhysicianCredential"].rows) : c["PhysicianId"] = Num(1)

\* the enrichment fields the directive table names
EnrichmentFields == {OutputField(get_merge_config[i]) : i \in Directives}

\* C5: every document written by save_and_finalize holds every enrichment
\* field of the directive table, whatever relation was missing.
C5_EveryEnrichmentFieldPresent ==
    pc = "saved" => \A k \in DOMAIN records : EnrichmentFields \subseteq DOMAIN records[k]

\* the primary relation of the directive at hand is absent or has no rows
PrimaryMissingOrEmpty ==
    LET key == get_merge_config[idx].primary_df_key
    IN key \notin DOMAIN dfs \/ Len(dfs[key].rows) = 0

\* C6: a directive whose primary relation is absent or has no rows is skipped:
\* the step leaves the subject table as it was, records exactly one warning,
\* for that directive, raises nothing and moves on to the next directive; and
\* the directives that are not skipped still add their field.
C6_SkipKeepsTableAndWarnsOnce ==
    /\ [][(pc = "merging" /\ idx \in Directives /\ PrimaryMissingOrEmpty) =>
            /\ physician_df' = physician_df
            /\ warnings' = Append(warnings, get_merge_config[idx].name)
            /\ pc' = "merging" /\ err' = ""
            /\ idx' = idx + 1]_vars
    /\ [](pc = "returned" =>
            \A i \in Directives :
                PrimaryHasRows(i) /\ ~OfType(i, "special_specialty_merge") =>
                    OutputField(get_merge_config[i]) \in physician_df.cols)

\* a returned run that skipped the first directive, whose relation was loaded
\* from an empty source, and applied the later ones
C6_Witness ==
    /\ pc = "returned"
    /\ warnings = <<"Languages">>
    /\ "PhysicianLanguage" \in DOMAIN dfs
    /\ "languages" \notin physician_df.cols
    /\ {"PracticeId", "facility"} \subseteq physician_df.cols

\* the directive at hand names a relation that is not in the map
ReferencesMissing(config) ==
    \/ config.primary_df_key \notin DOMAIN dfs
    \/ Has(config, "secondary_df_key") /\ config.secondary_df_key \notin DOMAIN dfs

\* C7: a directive that references a missing relation, a configured secondary
\* relation included, never makes process_and_merge_data raise.
C7_MissingRelationNeverRaises ==
    (pc = "raised" /\ "Physician" \in DOMAIN loaded) =>
        ~ReferencesMissing(get_merge_config[idx])

(***************************************************************************)
(* The specialty rollup: process_and_merge_data of                         *)
(* specialty_roll_up_transformation.py ("script") with its main, of        *)
(* cloud_function_rollup.py ("cloud"), and transform_data_to_jsonl of      *)
(* app.py ("app").  MaxRollup bounds the rows of the rollup relation.      *)
(***************************************************************************)
MaxRollup == 2

RollupKey == "PhysicianRollupSpecialties"
Variants == {"script", "cloud", "app"}

\* the identifiers of n rollup rows: ascending, descending, or one repeated
RollupIdLists(n) == {[i \in 1..n |-> i], [i \in 1..n |-> n + 1 - i], [i \in 1..n |-> 1]}

\* the parent keys of n rollup rows: none, a row's Id, or an Id no row has
ParentKeys(n) == {NaN} \cup {Num(k) : k \in 1..(n + 1)}

\* the rollup relation: row i links specialty i, and at most one row (unnamed)
\* has no display name
RollupFrame(ids, parents, unnamed) ==
    IF ids = <<>> THEN EmptyFrame
    ELSE DataFrame({"Id", "Specialty", "ParentSpecialty", "SpecialtyId"},
            [i \in DOMAIN ids |->
                [Id |-> Num(ids[i]),
                 Specialty |-> IF i = unnamed THEN NaN ELSE Txt("Specialty", i),
                 ParentSpecialty |-> parents[i],
                 SpecialtyId |-> Num(i)]])

RollupFrames ==
    UNION {{RollupFrame(ids, parents, unnamed) :
                ids \in RollupIdLists(n), parents \in [1..n -> ParentKeys(n)],
                unnamed \in 0..n} : n \in 0..MaxRollup}

\* the Specialty dimension: no row, one row, two rows, or an Id held twice
SpecialtyIdLists == {<<>>, <<1>>, <<2, 1>>, <<1, 1>>}
SpecialtyFrame(ids) ==
    IF ids = <<>> THEN EmptyFrame
    ELSE DataFrame({"Id", "Name"},
            [i \in DOMAIN ids |-> [Id |-> Num(ids[i]), Name |-> Txt("Name", i)]])

\* the specialties the Symptom rows and the Synonym rows reference
TextCases == {<< <<>>, <<1>> >>, << <<1>>, <<>> >>,
              << <<1>>, <<2, 1, 2>> >>, << <<2, 1, 2>>, <<1>> >>}
TextsFrame(col, ids) ==
    IF ids = <<>> THEN EmptyFrame
    ELSE DataFrame({"SpecialtyId", col},
            [i \in DOMAIN ids |->
                [c \in {"SpecialtyId", col} |->
                    IF c = "SpecialtyId" THEN Num(ids[i]) ELSE Txt(col, i)]])

RollupSources(rollup, spec_ids, texts) ==
    [rel \in {RollupKey, "Specialty", "Symptom", "Synonym", "AreaOfExpertise"} |->
        CASE rel = RollupKey -> rollup
          [] rel = "Specialty" -> SpecialtyFrame(spec_ids)
          [] rel = "Symptom" -> TextsFrame("SymptomText", texts[1])
          [] rel = "Synonym" -> TextsFrame("SynonymText", texts[2])
          [] OTHER -> DimensionFrame("AreaOfExpertise")]

InitRollup ==
    /\ \E rollup \in RollupFrames, spec_ids \in SpecialtyIdLists, texts \in TextCases :
            loaded = RollupSources(rollup, spec_ids, texts)
    /\ dfs = loaded
    /\ physician_df = EmptyFrame
    /\ idx = 1
    /\ pc = "start"
    /\ warnings = <<>>
    /\ err = ""
    /\ records = <<>>
    /\ df_final = EmptyFrame
    /\ variant \in Variants
    /\ cow \in BOOLEAN
    /\ output_file = NoFile
    /\ uploaded = NoFile
    /\ outcome = ""
    /\ log = <<>>
    /\ first_run = NoFile
    /\ files = <<>>
    /\ event = <<>>
    /\ calls = <<>>

\* Series.fillna(value) of column col
fillna(df, col, value) ==
    DataFrame(df.cols,
        MapSeq(df.rows, LAMBDA r : [c \in df.cols |->
                                        IF c = col /\ r[c] = NaN THEN value ELSE r[c]]))

\* a lookup keyed by the specialty link of a row instead of its own Id
parent_lookup_by_link(df_rollup) ==
    Then(Project(df_rollup, {"SpecialtyId", "Specialty"}), LAMBDA p :
        Rename(Rename(p, "SpecialtyId", "ParentSpecialty"), "Specialty",
               "ParentSpecialtyName"))

\* df_rollup[['Id', 'Specialty']].rename(...)
parent_lookup_df(df_rollup) ==
    Then(Project(df_rollup, {"Id", "Specialty"}), LAMBDA p :
        Rename(Rename(p, "Id", "ParentSpecialty"), "Specialty", "ParentSpecialtyName"))

\* script line 63 and app line 222 call df[col].fillna('', inplace=True), and
\* the fill reaches df unless the column selection is a copy, as it is under
\* copy-on-write (in_place_lost); cloud line 108 assigns the filled column
fill_parent_name(copy, in_place_lost, df) ==
    IF copy = "cloud" \/ ~in_place_lost THEN fillna(df, "ParentSpecialtyName", Str(""))
    ELSE df

\* the roll-up as the given copy of the code computes it
rolled_up_by(copy, in_place_lost, d) ==
    LET df_specialties == Rename(Rename(d["Specialty"], "Id", "SpecialtyId"),
                                 "Name", "CanonicalSpecialtyName")
        df_merged == MergeLeft(d[RollupKey], df_specialties, "SpecialtyId")
        joined == Then(df_merged, LAMBDA m :
                    Then(parent_lookup_df(d[RollupKey]), LAMBDA p :
                        MergeLeft(m, p, "ParentSpecialty")))
    IN Then(joined, LAMBDA j : fill_parent_name(copy, in_place_lost, j))

\* script lines 57-63, cloud lines 104-108, app lines 211-222
df_rolled_up(d) == rolled_up_by(variant, cow, d)

\* the column left as the joins produced it
ListOrNull(df, col) == df

\* df[col].apply(lambda x: x if isinstance(x, list) else [])
ListOrEmpty(df, col) ==
    DataFrame(df.cols,
        MapSeq(df.rows, LAMBDA r : [c \in df.cols |->
                                        IF c = col /\ ~IsList(r[c]) THEN List(<<>>)
                                        ELSE r[c]]))

\* script lines 66-71, cloud lines 109-114, app lines 225-236
map_texts(rolled, d) ==
    LET df_symptoms_agg == GroupApplyList(d["Symptom"], "SpecialtyId", "SymptomText")
        df_synonyms_agg == GroupApplyList(d["Synonym"], "SpecialtyId", "SynonymText")
        merged == Then(df_symptoms_agg, LAMBDA sy :
                    Then(df_synonyms_agg, LAMBDA sn :
                        Then(MergeLeft(rolled, sy, "SpecialtyId"), LAMBDA m :
                            MergeLeft(m, sn, "SpecialtyId"))))
    IN Then(merged, LAMBDA m : ListOrEmpty(ListOrEmpty(m, "SymptomText"), "SynonymText"))

\* the records of the AreaOfExpertise relation as each copy appends them:
\* main of the script renames Id first (line 146)
expertise_records_of(copy, d) ==
    IF copy = "script" THEN Rename(d["AreaOfExpertise"], "Id", "AreaofExpertiseId").rows
    ELSE d["AreaOfExpertise"].rows

expertise_records(d) == expertise_records_of(variant, d)

\* script main lines 143-155, cloud lines 104-119: the records the given copy
\* produces from the five relations, or the error that ends it
all_records(copy, in_place_lost, d) ==
    Then(Then(rolled_up_by(copy, in_place_lost, d), LAMBDA r : map_texts(r, d)),
         LAMBDA f : f.rows \o expertise_records_of(copy, d))

RollUp ==
    /\ pc = "start"
    /\ LET r == df_rolled_up(dfs)
       IN IF IsError(r)
          THEN pc' = "raised" /\ err' = r.error /\ df_final' = df_final
          ELSE pc' = "rolled_up" /\ err' = err /\ df_final' = r
    /\ UNCHANGED <<event, calls, files, first_run, loaded, dfs, physician_df, idx, warnings, records, variant, cow, io>>

MapTexts ==
    /\ pc = "rolled_up"
    /\ LET r == map_texts(df_final, dfs)
       IN IF IsError(r)
          THEN pc' = "raised" /\ err' = r.error /\ df_final' = df_final
          ELSE pc' = "mapped" /\ err' = err /\ df_final' = r
    /\ UNCHANGED <<event, calls, files, first_run, loaded, dfs, physician_df, idx, warnings, records, variant, cow, io>>

\* script main lines 153-155, cloud lines 117-119; app line 238 calls
\* df_final.fillna(None, inplace=True), which pandas refuses with ValueError
Combine ==
    /\ pc = "mapped"
    /\ IF variant = "app"
       THEN pc' = "raised" /\ err' = "ValueError" /\ records' = records
       ELSE pc' = "done" /\ err' = err /\ records' = df_final.rows \o expertise_records(dfs)
    /\ UNCHANGED <<event, calls, files, first_run, loaded, dfs, physician_df, idx, warnings, df_final, variant, cow, io>>

\* json.dumps of one value: a missing value is written as the token NaN
JsonNaN == <<"json", "NaN">>
RECURSIVE json_dumps(_)
json_dumps(v) ==
    CASE v = NaN -> JsonNaN
      [] v[1] = "list" -> List(MapSeq(v[2], json_dumps))
      [] OTHER -> v

\* script lines 81-83: every record is dumped as it is
write_records_to_jsonl(recs) ==
    MapSeq(recs, LAMBDA r : [c \in DOMAIN r |-> json_dumps(r[c])])

\* cloud line 132, None if pd.isna(v) else v: of a list pd.isna gives an
\* array, whose truth value is that of its element when it has one, an error
\* when it has several, and False or an error (strict), by the numpy build,
\* when it has none
Unclean == <<"ValueError">>
clean(v, strict) ==
    CASE v = NaN -> Null
      [] v[1] = "list" ->
            IF Len(v[2]) > 1 \/ (Len(v[2]) = 0 /\ strict) THEN Unclean
            ELSE IF Len(v[2]) = 1 /\ v[2][1] = NaN THEN Null
            ELSE v
      [] OTHER -> v

CleanRecord(r, strict) == \A c \in DOMAIN r : clean(r[c], strict) # Unclean

\* the records before the first one that cannot be cleaned
RECURSIVE CleanPrefix(_, _)
CleanPrefix(recs, strict) ==
    IF recs = <<>> \/ ~CleanRecord(Head(recs), strict) THEN <<>>
    ELSE <<Head(recs)>> \o CleanPrefix(Tail(recs), strict)

\* cloud lines 128-136: the records are written one by one; an exception ends
\* the loop, the file keeps the lines written so far, the except clause prints
write_dataframe_to_jsonl(recs, strict) ==
    MapSeq(CleanPrefix(recs, strict),
           LAMBDA r : [c \in DOMAIN r |-> json_dumps(clean(r[c], strict))])

\* script line 158, cloud line 52: the output file is written
WriteRecords ==
    /\ pc = "done"
    /\ \E strict \in BOOLEAN :
        /\ output_file' = File(IF variant = "cloud"
                               THEN write_dataframe_to_jsonl(records, strict)
                               ELSE write_records_to_jsonl(records))
        /\ log' = IF Len(output_file'.lines) < Len(records)
                  THEN Append(log, "An error occurred during file writing") ELSE log
    /\ pc' = "written"
    /\ UNCHANGED <<event, calls, files, first_run, loaded, dfs, physician_df, idx, warnings, err, records, df_final, variant,
                   cow, uploaded, outcome>>

\* script lines 161-163, cloud lines 55-58: the file is uploaded as it is;
\* upload_to_gcs prints a failure of the storage service and returns
UploadFile ==
    /\ pc = "written"
    /\ \E ok \in BOOLEAN :
        IF ok THEN uploaded' = output_file /\ log' = log
        ELSE uploaded' = uploaded /\ log' = Append(log, "An error occurred during upload")
    /\ pc' = "finished"
    /\ outcome' = "returned"
    /\ UNCHANGED <<event, calls, files, first_run, loaded, dfs, physician_df, idx, warnings, err, records, df_final, variant,
                   cow, output_file>>

NextRollup == RollUp \/ MapTexts \/ Combine \/ WriteRecords \/ UploadFile

SpecRollup == InitRollup /\ [][NextRollup]_vars

(***************************************************************************)
(* Properties of the rollup (specification SpecRollup).                    *)
(***************************************************************************)
\* the run returned its records; the first ones are the specialty records,
\* one per row of df_final, and the AreaOfExpertise records follow
Produced == pc = "done"
OutputRows == SubSeq(records, 1, Len(records) - Len(loaded["AreaOfExpertise"].rows))

RollupRows == loaded[RollupKey].rows

\* the rollup rows a row names as its parent
ParentsOf(row) == SelectSeq(RollupRows, LAMBDA q : q["Id"] = row["ParentSpecialty"])

\* C8: every output row whose ParentSpecialty is null or matches the Id of no
\* rollup row has ParentSpecialtyName equal to the empty string, never null
\* and never absent.
C8_RootParentNameIsEmptyString ==
    Produced => \A r \in DOMAIN OutputRows :
                ParentsOf(OutputRows[r]) = <<>> =>
                    FieldIs(OutputRows[r], "ParentSpecialtyName", Str(""))

\* C9 as claimed: every output row whose ParentSpecialty is the Id of a rollup
\* row has ParentSpecialtyName equal to that row's Specialty value.
C9_ParentNameIsParentSpecialty ==
    Produced => \A r \in DOMAIN OutputRows :
                \A q \in Range(ParentsOf(OutputRows[r])) :
                    FieldIs(OutputRows[r], "ParentSpecialtyName", q["Specialty"])

\* C9 as amended: every output row whose ParentSpecialty is the Id of a rollup
\* row has ParentSpecialtyName equal to the Specialty value of a rollup row
\* with that Id (one hop: the parent's own name, not a name further up), and
\* when that value is null the name is "" where the fill took effect and null
\* where it did not.
C9_ParentNameIsNameOfAParent ==
    Produced => \A r \in DOMAIN OutputRows :
                LET row == OutputRows[r]
                IN ParentsOf(row) # <<>> =>
                    \E q \in Range(ParentsOf(row)) :
                        \/ q["Specialty"] # NaN
                            /\ FieldIs(row, "ParentSpecialtyName", q["Specialty"])
                        \/ q["Specialty"] = NaN
                            /\ \/ FieldIs(row, "ParentSpecialtyName", Str(""))
                               \/ variant # "cloud" /\ cow
                                    /\ FieldIs(row, "ParentSpecialtyName", NaN)

\* two rollup rows that name each other as parent: each output row carries
\* the display name of the other row, not its own
C9_Witness ==
    /\ pc = "done"
    /\ Len(OutputRows) = 2
    /\ \A r \in 1..2 :
        /\ OutputRows[r]["Id"] = Num(r)
        /\ OutputRows[r]["ParentSpecialty"] = Num(3 - r)
        /\ OutputRows[r]["ParentSpecialtyName"] = Txt("Specialty", 3 - r)

RollupIds(rows) == MapSeq(rows, LAMBDA r : r["Id"])

\* C10 as claimed: for every input, the rollup produces exactly one output
\* row per row of the rollup relation, in that relation's row order.
C10_OneRowPerRollupRow ==
    Produced => RollupIds(OutputRows) = RollupIds(RollupRows)

\* no value occurs twice in column col of the frame
IsKey(df, col) == \A i, j \in DOMAIN df.rows : df.rows[i][col] = df.rows[j][col] => i = j

\* C10 as amended: when no Id occurs twice in the Specialty relation and none
\* occurs twice in the rollup relation, the rollup produces exactly one output
\* row per row of the rollup relation, in that relation's row order.
C10_OneRowPerRollupRowWhenIdsAreKeys ==
    (Produced /\ IsKey(loaded["Specialty"], "Id") /\ IsKey(loaded[RollupKey], "Id")) =>
        RollupIds(OutputRows) = RollupIds(RollupRows)

\* a finished rollup of two rows in descending Id order, one with a parent
\* that no row has and one without a specialty in the dimension
C10_Witness ==
    /\ pc = "done"
    /\ IsKey(loaded["Specialty"], "Id")
    /\ RollupIds(OutputRows) = <<Num(2), Num(1)>>
    /\ OutputRows[1]["ParentSpecialty"] = Num(3)
    /\ OutputRows[2]["CanonicalSpecialtyName"] = NaN
    /\ Len(records) = 3

\* the values of column col of the rows of relation rel that reference the
\* specialty of an output row, in the row order of rel
TextsOf(rel, col, row) ==
    MapSeq(SelectSeq(loaded[rel].rows, LAMBDA t : t["SpecialtyId"] = row["SpecialtyId"]),
           LAMBDA t : t[col])

\* C11: in every output row of the rollup, SymptomText (resp. SynonymText) is
\* the list of the SymptomText (resp. SynonymText) values of the Symptom
\* (resp. Synonym) rows with the row's SpecialtyId, in source row order, and
\* so the empty list, never null, when there is no such row.
C11_TextFieldsAreOrderedListsOrEmpty ==
    Produced => \A r \in DOMAIN OutputRows :
                /\ FieldIs(OutputRows[r], "SymptomText",
                           List(TextsOf("Symptom", "SymptomText", OutputRows[r])))
                /\ FieldIs(OutputRows[r], "SynonymText",
                           List(TextsOf("Synonym", "SynonymText", OutputRows[r])))

\* an output row with no symptom and two synonyms, the first and the third
\* row of the Synonym relation
C11_Witness ==
    /\ pc = "done"
    /\ \E r \in DOMAIN OutputRows :
        /\ OutputRows[r]["SymptomText"] = List(<<>>)
        /\ OutputRows[r]["SynonymText"] =
                List(<<Txt("SynonymText", 1), Txt("SynonymText", 3)>>)

(***************************************************************************)
(* Properties of main of data_transform.py (specification Spec).           *)
(***************************************************************************)
SubjectAbsent == "Physician" \notin DOMAIN loaded

\* C12: when the Physician relation is absent from the loaded relation map,
\* main aborts with a diagnostic before any output is attempted: the loop over
\* the directives is never entered (no directive is applied or skipped), no
\* output file is written and nothing is uploaded.
C12_NoSubjectAbortsBeforeOutput ==
    SubjectAbsent =>
        /\ pc \in {"start", "exited", "raised"}
        /\ idx = 1 /\ warnings = <<>> /\ physician_df = EmptyFrame
        /\ output_file = NoFile /\ uploaded = NoFile
        /\ outcome # "" => log # <<>>

\* main has ended on the ValueError of process_and_merge_data, with other
\* relations loaded
C12_Witness ==
    /\ SubjectAbsent
    /\ "PhysicianLanguage" \in DOMAIN loaded
    /\ err = "ValueError"
    /\ outcome = "returned"
    /\ log = <<"Failed during data processing">>
    /\ output_file = NoFile /\ uploaded = NoFile

\* main has ended on an exception of the pipeline
PipelineFailed == pc = "raised" /\ outcome # ""

\* main has ended after a run that wrote and uploaded zero documents
ZeroDocuments == pc = "uploaded" /\ outcome = "returned" /\ uploaded = File(<<>>)

\* C13: a whole-pipeline failure (the subject relation is missing, the output
\* cannot be produced) reaches the caller of main as an error, an outcome
\* other than the one of a successful run that produced zero documents.
C13_FailurePropagatesToCaller == PipelineFailed => outcome = "raised"

\* the subject relation was loaded and has no row
SubjectWithoutRows == ~SubjectAbsent /\ loaded["Physician"].rows = <<>>

\* every other relation was loaded and has rows
OtherSourcesSound ==
    \A r \in Relations \ {"Physician"} : r \in DOMAIN loaded /\ ~IsEmpty(loaded[r])

\* C14: a subject relation that loads successfully with zero rows (the other
\* relations being sound) makes process_and_merge_data and save_and_finalize
\* complete without an error and write an output stream of zero documents.
C14_EmptySubjectYieldsEmptyStream ==
    (SubjectWithoutRows /\ OtherSourcesSound) =>
        /\ err \notin {"ValueError", "KeyError"}
        /\ pc \in {"saved", "uploaded"} => output_file = File(<<>>)

(***************************************************************************)
(* Properties of the output of the rollup (specification SpecRollup).      *)
(***************************************************************************)
\* C15: an upload never carries a partial record set: whenever the output
\* file is uploaded, it holds one line for every subject record and every
\* side-channel record of the run.
C15_UploadCarriesEveryRecord ==
    uploaded # NoFile => Len(uploaded.lines) = Len(records)

\* the other of the two copies of the rollup
OtherCopy(copy) == IF copy = "cloud" THEN "script" ELSE "cloud"

\* C26: the cloud function and the original script compute the same rollup:
\* the records a run of either produced are the records the other produces
\* from the same five relations, specialty and AreaOfExpertise records alike.
C26_CloudAndScriptAgree ==
    (pc = "done" /\ variant \in {"cloud", "script"}) =>
        records = all_records(OtherCopy(variant), cow, loaded)

\* the specialty records alone, when the in-place fill of the script is not
\* lost
SpecialtyRecordsAgree ==
    (pc = "done" /\ variant \in {"cloud", "script"} /\ ~cow) =>
        SubSeq(records, 1, Len(df_final.rows))
            = SubSeq(all_records(OtherCopy(variant), cow, loaded), 1, Len(df_final.rows))

\* the run ended the way a successful run ends
FinishedAsSuccess == pc = "finished" /\ outcome = "returned"

SecondRun == first_run # NoFile

FileNames == {<<"HartfordHealthCare_", "Physician", ".json">>,
              <<"Physician", ".json">>,
              <<"HartfordHealthCare_", "PhysicianLanguage", ".json">>}

Unparsable == Raised("ValueError")

\* the table with one more column, holding a text in every row
WithColumn(df, col) ==
    DataFrame(df.cols \cup {col},
        [i \in DOMAIN df.rows |->
            [c \in df.cols \cup {col} |-> IF c = col THEN Txt(col, i) ELSE df.rows[i][c]]])

\* what a file of the given name may hold; a Physician source may carry a
\* column of its own named languages
FileContents(name) ==
    IF name[Len(name) - 1] = "Physician"
    THEN {PhysicianFrame(<<1>>), PhysicianFrame(<<2, 1>>),
          WithColumn(PhysicianFrame(<<1, 2>>), "languages"), Unparsable}
    ELSE {ChildFrame("PhysicianLanguage", <<1>>), ChildFrame("PhysicianLanguage", <<1, 1>>),
          Unparsable}

\* the listings glob can return: every set of files in every order
FileLists ==
    UNION {{fs \in [1..n -> UNION {[name : {f}, content : FileContents(f)] : f \in FileNames}] :
                \A i, j \in 1..n : fs[i].name = fs[j].name => i = j} :
           n \in 0..Cardinality(FileNames)}

\* line 106: filename.replace('HartfordHealthCare_', '').replace('.json', '')
RECURSIVE KeyOf(_)
KeyOf(name) ==
    IF name = <<>> THEN ""
    ELSE IF Head(name) \in {"HartfordHealthCare_", ".json"} THEN KeyOf(Tail(name))
    ELSE Head(name) \o KeyOf(Tail(name))

EmptyMap == [k \in {} |-> EmptyFrame]
Put(d, k, v) == [x \in DOMAIN d \cup {k} |-> IF x = k THEN v ELSE d[x]]

\* a loader that gives up at the first file read_json refuses
RECURSIVE LoadUntilRefused(_, _)
LoadUntilRefused(dataframes, fs) ==
    IF fs = <<>> \/ IsError(Head(fs).content) THEN dataframes
    ELSE LoadUntilRefused(Put(dataframes, KeyOf(Head(fs).name), Head(fs).content), Tail(fs))

\* lines 103-114: the files are read in the order of the listing; a file that
\* read_json refuses is skipped, a key met again is bound to the later table
RECURSIVE LoadInto(_, _)
LoadInto(dataframes, fs) ==
    IF fs = <<>> THEN dataframes
    ELSE LoadInto(IF IsError(Head(fs).content) THEN dataframes
                  ELSE Put(dataframes, KeyOf(Head(fs).name), Head(fs).content),
                  Tail(fs))

load_dataframes(fs) == LoadInto(EmptyMap, fs)

\* line 105: the name of the file as it is logged
RECURSIVE basename(_)
basename(name) == IF name = <<>> THEN "" ELSE Head(name) \o basename(Tail(name))

\* lines 110-111: the warning logged for a file read_json refuses
SkipWarning(name) == basename(name) \o " is empty or not valid JSON, skipping."

\* lines 109-111: one warning per refused file, in the order of the listing
RECURSIVE LoadWarnings(_)
LoadWarnings(fs) ==
    IF fs = <<>> THEN <<>>
    ELSE (IF IsError(Head(fs).content) THEN <<SkipWarning(Head(fs).name)>> ELSE <<>>)
         \o LoadWarnings(Tail(fs))

InitLoad ==
    /\ files \in FileLists
    /\ loaded = EmptyMap
    /\ dfs = EmptyMap
    /\ physician_df = EmptyFrame
    /\ idx = 1
    /\ pc = "loading"
    /\ warnings = <<>>
    /\ err = ""
    /\ records = <<>>
    /\ df_final = EmptyFrame
    /\ variant = "merge"
    /\ cow = FALSE
    /\ output_file = NoFile
    /\ uploaded = NoFile
    /\ outcome = ""
    /\ log = <<>>
    /\ first_run = NoFile
    /\ event = <<>>
    /\ calls = <<>>

\* main line 386
LoadDataframes ==
    /\ pc = "loading"
    /\ loaded' = load_dataframes(files)
    /\ dfs' = loaded'
    /\ pc' = "start"
    /\ log' = log \o LoadWarnings(files)
    /\ UNCHANGED <<event, calls, files, physician_df, idx, warnings, err, records, df_final, variant, cow,
                   output_file, uploaded, outcome, first_run>>

NextLoad ==
    \/ LoadDataframes
    \/ NoDataframes \/ Start \/ MergeStep \/ Return \/ SaveAndFinalize \/ Upload \/ Except

SpecLoad == InitLoad /\ [][NextLoad]_vars

\* the listings of the same files in another order
Reorderings(fs) == {p \in [DOMAIN fs -> Range(fs)] : Range(p) = Range(fs)}

\* C17: for every set of sources and every order in which they are loaded,
\* load_dataframes yields the same relation map (and so
\* process_and_merge_data, which reads nothing else, the same subject table).
C17_LoadOrderDoesNotMatter ==
    pc # "loading" => \A p \in Reorderings(files) : load_dataframes(p) = loaded

\* the subject table after a step holds every column it held before, with
\* the same value in every row
KeepsColumns(before, after) ==
    /\ before.cols \subseteq after.cols
    /\ Len(after.rows) = Len(before.rows)
    /\ \A i \in DOMAIN before.rows : \A c \in before.cols :
            after.rows[i][c] = before.rows[i][c]

\* C18: the directives are taken strictly in the order of get_merge_config,
\* one per pass of the loop, each on the subject table the previous pass
\* left, and no pass (applied or skipped) removes or changes a column the
\* subject table had before it.
C18_ColumnsOnlyGrow ==
    [][pc = "merging" =>
            /\ idx' \in {idx, idx + 1}
            /\ KeepsColumns(physician_df, physician_df')]_vars

\* the files of the listing read_json accepted
Parsed == {i \in DOMAIN files : ~IsError(files[i].content)}

SecondaryPresent(i) ==
    /\ Has(get_merge_config[i], "secondary_df_key")
    /\ get_merge_config[i].secondary_df_key \in DOMAIN dfs

\* the record a child row of directive i should yield: its foreign key and
\* the other columns of the dimension row the key names, null without one
RecordOf(i, child) ==
    LET config == get_merge_config[i]
        dimension == dfs[config.secondary_df_key]
        found == SelectSeq(dimension.rows, LAMBDA d : d[config.right_on] = child[config.left_on])
        keys == (dimension.cols \ {config.right_on}) \cup {config.left_on}
    IN Dict([c \in keys |-> IF c = config.left_on THEN child[c]
                            ELSE IF found = <<>> THEN NaN ELSE found[1][c]])

\* the output field of the row is the list of the records of its child rows
HasRecordPerChild(i, row) ==
    LET children == ChildRowsOf(i, row)
    IN FieldIs(row, OutputField(get_merge_config[i]),
               List([k \in DOMAIN children |-> RecordOf(i, children[k])]))

\* C25: after a group_and_dict directive with a configured and present
\* secondary relation, the output field of every subject row is the list of
\* one record per child row of that subject, in child row order, a child row
\* without a dimension row included, and every record has the same keys.
C25_OneRecordPerChildRow ==
    \A i \in Directives :
        (OfType(i, "group_and_dict") /\ SecondaryPresent(i) /\ PrimaryHasRows(i)) =>
            /\ ~(pc = "raised" /\ idx = i)
            /\ Applied(i) => \A r \in DOMAIN physician_df.rows :
                                HasRecordPerChild(i, physician_df.rows[r])

\* the same for the subject rows that have a child row, when the dimension
\* relation has its columns
RecordsOfSubjectsWithChildren ==
    \A i \in Directives :
        (OfType(i, "group_and_dict") /\ SecondaryPresent(i) /\ Applied(i)) =>
            \A r \in DOMAIN physician_df.rows :
                ChildRowsOf(i, physician_df.rows[r]) # <<>> =>
                    HasRecordPerChild(i, physician_df.rows[r])

(***************************************************************************)
(* data_transformation.py: step 3 of main, the merges written out one by   *)
(* one.  The script keeps a relation under the name of its file without    *)
(* the suffix (HartfordHealthCare_PhysicianLanguage); the map handed to    *)
(* these operators holds it under the relation name.                       *)
(***************************************************************************)
\* pd.merge(left, right, left_on=.., right_on=.., how='left'): the join on
\* two differently named keys keeps both key columns
MergeLeftOn(left, right, left_on, right_on) ==
    IF left_on \notin left.cols \/ right_on \notin right.cols THEN Raised("KeyError")
    ELSE Then(MergeLeft(left, Rename(right, right_on, left_on), left_on), LAMBDA m :
            DataFrame(m.cols \cup {right_on},
                MapSeq(m.rows, LAMBDA row :
                    [c \in m.cols \cup {right_on} |->
                        IF c # right_on THEN row[c]
                        ELSE IF \E r \in Range(right.rows) : r[right_on] = row[left_on]
                             THEN row[left_on] ELSE NaN])))

\* lines 139-142, 153-156, 166-169, 180-183: a list merge, guarded by the
\* presence of the relation alone
script_list(pdf, d, rel, col, name) ==
    IF rel \notin DOMAIN d THEN pdf
    ELSE Then(GroupApplyList(d[rel], "PhysicianId", col), LAMBDA g :
            MergeLeft(pdf, Rename(g, col, name), "PhysicianId"))

\* lines 146-150: Insurance, with the record columns InsuranceId and Name
script_insurance(pdf, d) ==
    IF ~({"PhysicianInsurance", "Insurance"} \subseteq DOMAIN d) THEN pdf
    ELSE Then(MergeLeftOn(d["PhysicianInsurance"], d["Insurance"], "InsuranceId", "Id"),
            LAMBDA m :
                Then(GroupApplyDict(m, "PhysicianId", {"InsuranceId", "Name"}, "insurance"),
                     LAMBDA g : MergeLeft(pdf, g, "PhysicianId")))

\* lines 159-164 and 172-177: Locations and Area of Expertise, with the
\* columns of the renamed dimension relation as record columns
script_dimension(pdf, d, rel, dim, key, name) ==
    IF ~({rel, dim} \subseteq DOMAIN d) THEN pdf
    ELSE LET details == Rename(d[dim], "Id", key)
         IN Then(MergeLeft(d[rel], details, key), LAMBDA m :
                Then(GroupApplyDict(m, "PhysicianId", details.cols, name),
                     LAMBDA g : MergeLeft(pdf, g, "PhysicianId")))

\* lines 186-189 (guarded by .empty too) and 192-195 (not)
script_records(pdf, d, rel, record_cols, name, checks_empty) ==
    IF rel \notin DOMAIN d \/ (checks_empty /\ IsEmpty(d[rel])) THEN pdf
    ELSE Then(GroupApplyDict(d[rel], "PhysicianId", record_cols, name),
              LAMBDA g : MergeLeft(pdf, g, "PhysicianId"))

\* lines 198-213: the specialties, the statements of _merge_specialties
\* behind the guard of line 198
script_specialties(pdf, d) ==
    IF "PhysicianSpecialty" \notin DOMAIN d \/ IsEmpty(d["PhysicianSpecialty"]) THEN pdf
    ELSE _merge_specialties(pdf, d)

\* lines 138-213: the merges in the order of the script; the first one that
\* raises ends the script
script_step3(d) ==
    LET s1 == script_list(d["Physician"], d, "PhysicianLanguage", "Language", "languages")
        s2 == Then(s1, LAMBDA p : script_insurance(p, d))
        s3 == Then(s2, LAMBDA p : script_list(p, d, "PhysicianPractice", "PracticeId",
                                              "PracticeId"))
        s4 == Then(s3, LAMBDA p : script_dimension(p, d, "PhysicianLocation", "Location",
                                                   "LocationId", "location"))
        s5 == Then(s4, LAMBDA p : script_list(p, d, "PhysicianFacultyAppointment", "Position",
                                              "Position_faculty_appointments"))
        s6 == Then(s5, LAMBDA p : script_dimension(p, d, "PhysicianAreaOfExpertise",
                                                   "AreaOfExpertise", "AreaOfExpertiseId",
                                                   "area_of_expertise"))
        s7 == Then(s6, LAMBDA p : script_list(p, d, "PhysicianTeamKeyword", "TeamKeyword",
                                              "TeamKeyword"))
        s8 == Then(s7, LAMBDA p : script_records(p, d, "PhysicianEducation",
                                    {"School", "SchoolType", "Degree", "AreaOfStudy"},
                                    "education", TRUE))
        s9 == Then(s8, LAMBDA p : script_records(p, d, "PhysicianCredential",
                                    {"Facility", "ShowOnWeb"}, "facility", FALSE))
    IN Then(s9, LAMBDA p : script_specialties(p, d))

\* C27: the configuration-driven pipeline and the hand-written script are
\* copies of the same logic: from the same relation map the script builds the
\* subject table the pipeline returned, and where the pipeline's merge raised
\* the script's raises too.
C27_PipelineAndScriptAgree ==
    /\ pc = "returned" => script_step3(loaded) = physician_df
    /\ (pc = "raised" /\ err = "KeyError") => IsError(script_step3(loaded))

\* the same when every relation is present and has rows
AgreeOnCompleteSources ==
    (pc = "returned" /\ DOMAIN loaded = Relations
                     /\ \A rel \in Relations \ {"Physician"} : ~IsEmpty(loaded[rel]))
        => script_step3(loaded) = physician_df

(***************************************************************************)
(* The relation map after process_and_merge_data (specification Spec).     *)
(***************************************************************************)
\* process_and_merge_data was called on the map of this run
Called == pc \notin {"start", "exited", "loading"}

\* C28: process_and_merge_data takes exactly the Physician entry out of the
\* relation map it is given; every other relation stays in the map with the
\* rows, the columns and the column names it had before the call.
C28_OnlyPhysicianLeavesTheMap ==
    Called =>
        /\ DOMAIN dfs = DOMAIN loaded \ {"Physician"}
        /\ \A k \in DOMAIN dfs : dfs[k] = loaded[k]

\* the call returned after it joined the renamed Insurance and Specialty
\* relations; the map has lost Physician and holds both under their own
\* column names
C28_Witness ==
    /\ pc = "returned"
    /\ "Physician" \in DOMAIN loaded
    /\ "Physician" \notin DOMAIN dfs
    /\ {"insurance", "specialties"} \subseteq physician_df.cols
    /\ dfs["Insurance"].cols = {"Id", "Name"}
    /\ dfs["Specialty"].cols = {"Id", "Name"}

(***************************************************************************)
(* Properties of the documents save_and_finalize writes (specification     *)
(* Spec).                                                                  *)
(***************************************************************************)
\* the documents of the output file, once it is written
Documents == IF output_file = NoFile THEN <<>> ELSE output_file.lines

\* C19: every document of the output carries a generated identifier field
\* _id, different from document to document and different from the
\* document's business identifier.
C19_EveryDocumentHasFreshId ==
    /\ \A i \in DOMAIN Documents :
            /\ "_id" \in DOMAIN Documents[i]
            /\ Documents[i]["_id"] # Documents[i]["PhysicianId"]
    /\ \A i, j \in DOMAIN Documents :
            i # j => Documents[i]["_id"] # Documents[j]["_id"]

(***************************************************************************)
(* The record collection of the rollup (specification SpecRollup).         *)
(***************************************************************************)
\* C20: the final record collection is the rows of the subject table in
\* their order followed by the rows of the AreaOfExpertise relation in source
\* order, these with the fields and values of the source relation, and the
\* output file holds one line per record.
C20_SubjectRowsThenSideChannelVerbatim ==
    /\ pc \in {"done", "written", "finished"} =>
            records = df_final.rows \o loaded["AreaOfExpertise"].rows
    /\ pc \in {"written", "finished"} => Len(output_file.lines) = Len(records)

(***************************************************************************)
(* The cells of the documents save_and_finalize writes (specification      *)
(* Spec).                                                                  *)
(***************************************************************************)
\* C21: in every document of the output, a missing scalar cell is written as
\* an explicit null, and every field an aggregation produced is written as a
\* list (empty when the subject has no data), never as null.
C21_NullScalarsAndContainerFields ==
    \A i \in DOMAIN Documents : \A c \in DOMAIN Documents[i] :
        /\ Documents[i][c] # NaN
        /\ c \in EnrichmentFields => IsList(Documents[i][c])

\* the output file was written from the subject table of this run
Saved == pc \in {"saved", "uploaded"}

\* C22: save_and_finalize removes the top-level column AcceptingNewPatients
\* when it is present and changes nothing else: the output has one document
\* per row of the subject table, in row order, with every other column of the
\* row and the value of its cell.
C22_OnlyAcceptingNewPatientsIsDropped ==
    Saved =>
        /\ Len(Documents) = Len(physician_df.rows)
        /\ \A i \in DOMAIN Documents :
            /\ DOMAIN Documents[i] = physician_df.cols \ {"AcceptingNewPatients"}
            /\ \A c \in DOMAIN Documents[i] :
                    Documents[i][c] = to_json(physician_df.rows[i][c])

\* two documents written from a subject table that has the column; the
\* specialty records inside the first document keep their own
\* AcceptingNewPatients
C22_Witness ==
    /\ pc = "saved"
    /\ "AcceptingNewPatients" \in physician_df.cols
    /\ Len(Documents) = 2
    /\ "AcceptingNewPatients" \notin DOMAIN Documents[1]
    /\ Documents[1]["Name"] = physician_df.rows[1]["Name"]
    /\ "specialties" \in DOMAIN Documents[1]
    /\ IsList(Documents[1]["specialties"])
    /\ Len(Documents[1]["specialties"][2]) > 0
    /\ "AcceptingNewPatients" \in DOMAIN Documents[1]["specialties"][2][1][2]

(***************************************************************************)
(* The /ingest endpoint of app.py and app_search.py (specification         *)
(* SpecIngest): transform_data_to_jsonl, purge_all_documents,              *)
(* upload_to_gcs and the import request, each of which may fail.           *)
(***************************************************************************)
\* the payloads of a request: the five relations, or four of them
Payloads ==
    LET full == {RollupSources(rollup, spec_ids, texts) :
                    rollup \in RollupFrames, spec_ids \in {<<>>, <<2, 1>>}, texts \in TextCases}
    IN full \cup {Pop(RollupSources(EmptyFrame, <<1>>, << <<1>>, <<1>> >>), "Symptom")}

\* str(rec): the text Python prints for the record
PyRepr(rec) == <<"repr", rec>>

\* app lines 240-247: every record gets a fresh _id and is turned into text
with_ids(recs) ==
    [i \in DOMAIN recs |->
        PyRepr([c \in DOMAIN recs[i] \cup {"_id"} |->
                    IF c = "_id" THEN Txt("_id", i) ELSE recs[i][c]])]

\* app line 249, "\n".join(records): a text of the given lines
Jsonl(lines) == [lines |-> lines]

\* app lines 194-249: the JSONL text, or the exception raised;
\* raw_data[...] raises KeyError for a relation the payload lacks, and
\* df_final.fillna(None, inplace=True) is refused with ValueError by the
\* pandas builds that demand a fill value (refuses)
transform_data_to_jsonl(raw_data, refuses) ==
    IF ~({RollupKey, "Specialty", "Symptom", "Synonym", "AreaOfExpertise"}
            \subseteq DOMAIN raw_data)
    THEN Raised("KeyError")
    ELSE Then(Then(rolled_up_by("app", cow, raw_data), LAMBDA r : map_texts(r, raw_data)),
              LAMBDA f : IF refuses THEN Raised("ValueError")
                         ELSE Jsonl(with_ids(f.rows \o raw_data["AreaOfExpertise"].rows)))

\* a request sent to an external service and whether it returned
Call(request, returned) == [request |-> request, returned |-> returned]

InitIngest ==
    /\ loaded \in Payloads
    /\ dfs = loaded
    /\ physician_df = EmptyFrame
    /\ idx = 1
    /\ pc = "request"
    /\ warnings = <<>>
    /\ err = ""
    /\ records = <<>>
    /\ df_final = EmptyFrame
    /\ variant = "app"
    /\ cow \in BOOLEAN
    /\ output_file = NoFile
    /\ uploaded = NoFile
    /\ outcome = ""
    /\ log = <<>>
    /\ first_run = NoFile
    /\ files = <<>>
    /\ event = <<>>
    /\ calls = <<>>

\* the handler ends with the exception it logged
Fails(kind, message) ==
    /\ pc' = "responded"
    /\ outcome' = "raised"
    /\ err' = kind
    /\ log' = Append(log, message)

\* ingest_data lines 341-350: the transformation; an exception or an empty
\* text ends the request
TransformData ==
    /\ pc = "request"
    /\ \E refuses \in BOOLEAN :
        LET jsonl_data == transform_data_to_jsonl(loaded, refuses)
        IN IF IsError(jsonl_data)
           THEN Fails(jsonl_data.error, "Error during data transformation")
                    /\ records' = records
           ELSE IF jsonl_data.lines = <<>>
           THEN Fails("HTTPException", "Error during data transformation")
                    /\ records' = records
           ELSE /\ records' = jsonl_data.lines
                /\ pc' = "transformed"
                /\ UNCHANGED <<outcome, err, log>>
    /\ UNCHANGED <<event, calls, files, first_run, loaded, dfs, physician_df, idx, warnings,
                   df_final, variant, cow, output_file, uploaded>>

\* a purge that goes on when the service refused the request
PurgeIgnoringFailure ==
    /\ pc = "transformed"
    /\ \E ok \in BOOLEAN : calls' = Append(calls, Call("purge_documents", ok))
    /\ pc' = "purged"
    /\ UNCHANGED <<event, files, first_run, loaded, dfs, physician_df, idx, warnings, err,
                   records, df_final, variant, cow, io>>

\* ingest_data line 354, purge_all_documents lines 283-318: the purge request
\* returns an operation, or its failure is logged and raised again
PurgeAllDocuments ==
    /\ pc = "transformed"
    /\ \E ok \in BOOLEAN :
        /\ calls' = Append(calls, Call("purge_documents", ok))
        /\ IF ok THEN pc' = "purged" /\ UNCHANGED <<outcome, err, log>>
           ELSE Fails("GoogleAPICallError", "Discovery Engine Purge API call failed")
    /\ UNCHANGED <<event, files, first_run, loaded, dfs, physician_df, idx, warnings, records,
                   df_final, variant, cow, output_file, uploaded>>

\* ingest_data line 359, upload_to_gcs lines 252-278: the text is uploaded and
\* the URI returned, or the failure is logged and raised again
UploadToGcs ==
    /\ pc = "purged"
    /\ \E ok \in BOOLEAN :
        /\ calls' = Append(calls, Call("upload_from_string", ok))
        /\ IF ok THEN uploaded' = File(records) /\ pc' = "stored"
                      /\ UNCHANGED <<outcome, err, log>>
           ELSE Fails("GoogleAPICallError", "GCS Upload Failed") /\ uploaded' = uploaded
    /\ UNCHANGED <<event, files, first_run, loaded, dfs, physician_df, idx, warnings, records,
                   df_final, variant, cow, output_file>>

\* ingest_data lines 362-390: the import request; the handler answers 202
\* with the operation, or logs the failure and raises it again
ImportDocuments ==
    /\ pc = "stored"
    /\ \E ok \in BOOLEAN :
        /\ calls' = Append(calls, Call("import_documents", ok))
        /\ IF ok THEN pc' = "responded" /\ outcome' = "accepted" /\ UNCHANGED <<err, log>>
           ELSE Fails("GoogleAPICallError", "Discovery Engine Import API call failed")
    /\ UNCHANGED <<event, files, first_run, loaded, dfs, physician_df, idx, warnings, records,
                   df_final, variant, cow, output_file, uploaded>>

NextIngest == TransformData \/ PurgeAllDocuments \/ UploadToGcs \/ ImportDocuments

SpecIngest == InitIngest /\ [][NextIngest]_vars

\* the requests of a complete ingestion, in their order
IngestOrder == <<"purge_documents", "upload_from_string", "import_documents">>

\* C29: the external requests of ingest_data are sent in the order purge,
\* upload, import: the purge only after the transformation returned a
\* non-empty text, every later request only after the one before it
\* returned, and the import only after the upload stored the text.
C29_PurgeUploadImportInOrder ==
    /\ Len(calls) <= Len(IngestOrder)
    /\ \A i \in DOMAIN calls :
            /\ calls[i].request = IngestOrder[i]
            /\ i > 1 => calls[i - 1].returned
    /\ calls # <<>> => records # <<>>
    /\ Len(calls) = 3 => uploaded = File(records)

\* an accepted request: three requests sent, the text of several records
\* stored before the import
C29_Witness ==
    /\ pc = "responded"
    /\ outcome = "accepted"
    /\ Len(calls) = 3
    /\ Len(records) > 2
    /\ uploaded = File(records)

(***************************************************************************)
(* The cloud function process_data of cloud_function_rollup.py             *)
(* (specification SpecCloud): the check of the triggering file, the        *)
(* download, the reading of the five sources, then the rollup, the write   *)
(* and the upload of the cloud copy.                                       *)
(***************************************************************************)
\* lines 25-27: DOWNLOAD_PREFIX and UPLOAD_PREFIX
DownloadPrefix == "SpecialtyData/"
UploadPrefix == "TransformedData/"

\* the objects whose upload triggers the function: a source file, and the
\* output the function itself uploads; a name is its folder and its file
Events == {[name |-> <<DownloadPrefix, "HartfordHealthCare_Symptom.json">>],
           [name |-> <<UploadPrefix, "transformed_rollup_data.jsonl">>]}

\* lines 91-95: the five relations in the order they are read
SourceOrder == <<RollupKey, "Specialty", "Symptom", "Synonym", "AreaOfExpertise">>

\* what may be wrong with the bucket: nothing, no blob under the prefix, or
\* one relation whose blob is absent, fails to download, or cannot be parsed
Faults ==
    {[kind |-> "none", rel |-> ""], [kind |-> "no blobs", rel |-> ""]}
        \cup [kind : {"absent", "download failed", "unreadable"}, rel : Range(SourceOrder)]

\* the blobs bucket.list_blobs(prefix) returns, with what a download and
\* pd.read_json make of each
Blobs(sources, fault) ==
    IF fault.kind = "no blobs" THEN <<>>
    ELSE LET listed == SelectSeq(SourceOrder,
                            LAMBDA rel : ~(fault.kind = "absent" /\ fault.rel = rel))
         IN [i \in DOMAIN listed |->
                [name |-> listed[i],
                 failed |-> fault.kind = "download failed" /\ fault.rel = listed[i],
                 content |-> IF fault.kind = "unreadable" /\ fault.rel = listed[i]
                             THEN Unparsable ELSE sources[listed[i]]]]

InitCloud ==
    /\ event \in Events
    /\ \E rollup \in RollupFrames, fault \in Faults :
            files = Blobs(RollupSources(rollup, <<2, 1>>, << <<1>>, <<2, 1, 2>> >>), fault)
    /\ loaded = EmptyMap
    /\ dfs = EmptyMap
    /\ physician_df = EmptyFrame
    /\ idx = 1
    /\ pc = "triggered"
    /\ warnings = <<>>
    /\ err = ""
    /\ records = <<>>
    /\ df_final = EmptyFrame
    /\ variant = "cloud"
    /\ cow = FALSE
    /\ output_file = NoFile
    /\ uploaded = NoFile
    /\ outcome = ""
    /\ log = <<>>
    /\ first_run = NoFile
    /\ calls = <<>>

\* process_data returns early, after it printed why
Returns(message) ==
    /\ pc' = "exited"
    /\ outcome' = "returned"
    /\ log' = Append(log, message)

\* a check that lets every triggering file through
CheckTriggerSkipped ==
    /\ pc = "triggered"
    /\ pc' = "downloading"
    /\ UNCHANGED <<event, calls, files, first_run, loaded, dfs, physician_df, idx, warnings, err,
                   records, df_final, variant, cow, io>>

\* lines 30-32: trigger_file.startswith(download_prefix)
CheckTrigger ==
    /\ pc = "triggered"
    /\ IF event.name[1] # DownloadPrefix
       THEN Returns("File is not in the download prefix. Skipping.")
       ELSE pc' = "downloading" /\ UNCHANGED <<outcome, log>>
    /\ UNCHANGED <<event, calls, files, first_run, loaded, dfs, physician_df, idx, warnings, err,
                   records, df_final, variant, cow, output_file, uploaded>>

\* lines 41-42 and download_all_source_files, lines 61-81: False when the
\* prefix holds no blob or a download ended with an exception
DownloadAllSourceFiles ==
    /\ pc = "downloading"
    /\ IF files = <<>> THEN Returns("No files found to download at specified prefix.")
       ELSE IF \E i \in DOMAIN files : files[i].failed
       THEN Returns("Failed to download")
       ELSE pc' = "downloaded" /\ UNCHANGED <<outcome, log>>
    /\ UNCHANGED <<event, calls, files, first_run, loaded, dfs, physician_df, idx, warnings, err,
                   records, df_final, variant, cow, output_file, uploaded>>

\* the local copy of a relation: the downloaded blob of that name, if any
LocalCopies(rel) == SelectSeq(files, LAMBDA b : b.name = rel /\ ~b.failed)

\* lines 45-48 and process_and_merge_data, lines 86-101: the five sources are
\* read; a file that is missing or that read_json refuses makes the function
\* return None and process_data halt
ReadSources ==
    /\ pc = "downloaded"
    /\ IF \E rel \in Range(SourceOrder) : LocalCopies(rel) = <<>>
       THEN Returns("CRITICAL ERROR: A source JSON file is missing.")
                /\ UNCHANGED <<loaded, dfs>>
       ELSE IF \E rel \in Range(SourceOrder) : IsError(LocalCopies(rel)[1].content)
       THEN Returns("CRITICAL ERROR reading a source JSON file")
                /\ UNCHANGED <<loaded, dfs>>
       ELSE /\ loaded' = [rel \in Range(SourceOrder) |-> LocalCopies(rel)[1].content]
            /\ dfs' = loaded'
            /\ pc' = "start"
            /\ UNCHANGED <<outcome, log>>
    /\ UNCHANGED <<event, calls, files, first_run, physician_df, idx, warnings, err, records,
                   df_final, variant, cow, output_file, uploaded>>

NextCloud ==
    \/ CheckTrigger \/ DownloadAllSourceFiles \/ ReadSources
    \/ RollUp \/ MapTexts \/ Combine \/ WriteRecords \/ UploadFile

SpecCloud == InitCloud /\ [][NextCloud]_vars

\* the run opened the output file or asked for its upload
OutputAttempted == output_file # NoFile \/ uploaded # NoFile \/ pc \in {"written", "finished"}

\* the triggering file is under the download prefix, blobs were found and all
\* downloaded, and each of the five relations was there and could be read
EarlierStepsSucceeded ==
    /\ event.name[1] = DownloadPrefix
    /\ files # <<>>
    /\ \A i \in DOMAIN files : ~files[i].failed
    /\ \A rel \in Range(SourceOrder) :
            \E i \in DOMAIN files : files[i].name = rel /\ ~IsError(files[i].content)

\* C30: process_data writes and uploads an output only when every earlier
\* step succeeded: with a triggering file outside the download prefix, no
\* blob found, a failed download, or a source relation that is missing or
\* unreadable, the run ends with no output file written and no upload made.
C30_OutputOnlyAfterEveryStepSucceeded ==
    /\ OutputAttempted => EarlierStepsSucceeded
    /\ (pc = "exited" /\ outcome = "returned") => ~OutputAttempted

\* a run that went through every step and uploaded the records of one
\* specialty and one area of expertise
C30_Witness ==
    /\ pc = "finished"
    /\ EarlierStepsSucceeded
    /\ uploaded # NoFile
    /\ Len(records) = 2
    /\ Len(uploaded.lines) = 2
    /\ uploaded = output_file
====
